---- MODULE Spec2Model ----
(***************************************************************************)
(* Model of the file store of src/sql.py: the Database class that keeps    *)
(* files (filename, mime type, size, bytes, sha256) in one table "files"   *)
(* of a MySQL or an SQLite database.  Every method opens a connection,     *)
(* runs one statement, commits and closes; each library call that can      *)
(* raise (get_connection, conn.cursor, cursor.execute, conn.commit) is one *)
(* step of the model with both of its outcomes.  cursor.close() and        *)
(* conn.close() are taken not to raise.                                    *)
(***************************************************************************)
EXTENDS Integers, Sequences, FiniteSets, TLC

\* ----- bounds of the model -----
MaxIds == 3          \* ids the engine hands out
MaxExportIds == 2    \* ids handed out before the exports
MaxSizeMb == 2        \* megabytes asked of the generator
MaxLeaked == 1       \* connections that may be left open

\* ----- program constants -----
DefaultPort == 3306
DigestMod == 16      \* size of the abstract digest space

Engines == {"mysql", "sqlite"}

\* ----- inputs -----
\* values a key of db_param.json can have: absent, present but falsy, set
KeyVals == {"absent", "empty", "set"}
PortVals == {0, 3307}                     \* 0: absent or falsy
EngineVals == {"absent", "mysql", "sqlite", "SQLITE", "oracle"}

\* the contents of db_param.json, or no file at all
Configs ==
  [exists : {TRUE}, engine : EngineVals, host : KeyVals, user : KeyVals,
   password : KeyVals, database : KeyVals, port : PortVals]
  \cup
  { [exists |-> FALSE, engine |-> "absent", host |-> "absent",
     user |-> "absent", password |-> "absent", database |-> "absent",
     port |-> 0] }

\* hashlib.sha256(...).hexdigest(), abstracted to a small digest space
RECURSIVE DigestFrom(_, _)
DigestFrom(h, bytes) ==
  IF bytes = <<>> THEN h
  ELSE DigestFrom((h * 5 + Head(bytes) + 1) % DigestMod, Tail(bytes))

Digest(bytes) == DigestFrom(7, bytes)

\* arguments of insert_file: <<filename, mime_type, file_size, file_data, sha256>>
\* the second one has a size and a digest that do not belong to its bytes
Uploads ==
  { <<"a.txt", "text/plain", 2, <<1, 2>>, Digest(<<1, 2>>)>>,
    <<"a.txt", "application/octet-stream", 7, <<3>>, Digest(<<1, 2>>)>> }

NoUpload == <<"", "", 0, <<>>, 0>>

VARIABLES
  config,       \* db_param.json
  files,        \* files[e]: the rows of table "files" of engine e
  seq,          \* seq[e]: the last id the engine's AUTO_INCREMENT handed out
  tableExists,  \* tableExists[e]: table "files" exists in engine e
  db,           \* engine of the constructed Database object, "none" before
  pc,           \* position inside the method that is running, "idle" if none
  call,         \* the arguments and locals of the running method
  conn,         \* connections opened by the running method and still open
  cursor,       \* cursors opened by the running method and still open
  leaked,       \* connections no method will close any more
  ret,          \* how the last method ended
  pre,          \* rows of the engine's table when the last method was called
  inserted,     \* inserted[e]: <<id, upload>> of rows inserted and not removed
  removed,      \* removed[e]: ids of the rows a DELETE removed
  deletedOk,    \* deletedOk[e]: ids for which delete_file returned True
  maxReturned,  \* maxReturned[e]: the greatest id insert_file returned
  gui,          \* the window of gui_app: tree view, combo box, running handler
  export,       \* the last export: the row, the file written, the report
  script,       \* sql_app.main: its position and the file_id it got
  gen           \* random_data.create_random_file: its locals and the file

vars == <<config, files, seq, tableExists, db, pc, call, conn, cursor, leaked, ret,
          pre, inserted, removed, deletedOk, maxReturned, gui, export, script,
          gen>>

store == <<files, seq, tableExists>>
ghost == <<inserted, removed, deletedOk, maxReturned>>

\* ----- helpers for the records of the model -----

NoCall ==
  [op |-> "none", engine |-> "none", upload |-> NoUpload, id |-> 0,
   vacuum_after |-> FALSE, rows_affected |-> 0, connection_closed |-> FALSE,
   rowid |-> 0, caller |-> "none", vacuumed |-> FALSE, attempts |-> 0,
   connected |-> FALSE]

NoRet ==
  [op |-> "none", status |-> "none", engine |-> "none", upload |-> NoUpload,
   arg |-> 0, vacuum_after |-> FALSE, id |-> 0, ok |-> FALSE, rows |-> <<>>,
   error |-> "", missing |-> <<>>, vacuumed |-> FALSE, attempts |-> 0,
   connected |-> FALSE]

\* the method returns normally
Returned(c) ==
  [NoRet EXCEPT !.op = c.op, !.status = "returned", !.engine = c.engine,
                !.upload = c.upload, !.arg = c.id,
                !.vacuum_after = c.vacuum_after, !.vacuumed = c.vacuumed,
                !.attempts = c.attempts, !.connected = c.connected]

\* the method raises err to its caller
Raised(c, err) ==
  [NoRet EXCEPT !.op = c.op, !.status = "raised", !.engine = c.engine,
                !.upload = c.upload, !.arg = c.id,
                !.vacuum_after = c.vacuum_after, !.vacuumed = c.vacuumed,
                !.attempts = c.attempts, !.connected = c.connected,
                !.error = err]

\* no window: the Database object is used directly
NoGui ==
  [stage |-> "idle", handler |-> "none", done |-> "none", tree |-> {},
   combo |-> "none", current |-> "none", before |-> "none", selected |-> 0,
   upload |-> NoUpload]

\* sql_app.main is not running
NoScript ==
  [stage |-> "idle", upload |-> NoUpload, file_id |-> 0, row |-> <<>>,
   done |-> "none"]

\* create_random_file is not running and there is no output file; the file
\* is the sequence of its size, empty when it does not exist
NoGen ==
  [pc |-> "idle", size_mb |-> 0, total_bytes |-> 0, bytes_written |-> 0,
   error |-> "", file |-> <<>>, before |-> <<>>]

\* nothing exported yet
NoExport ==
  [by |-> "none", row |-> <<>>, written |-> <<>>, read |-> <<>>,
   report |-> "none", raised |-> FALSE]

Row(id, u) ==
  [id |-> id, filename |-> u[1], mime_type |-> u[2], file_size |-> u[3],
   file_data |-> u[4], sha256 |-> u[5]]

Ids(rows) == { r.id : r \in rows }

Max(S) == IF S = {} THEN 0 ELSE CHOOSE m \in S : \A x \in S : x <= m

\* the running method ends with r
Finish(r) == pc' = "idle" /\ call' = NoCall /\ ret' = r

\* cursor.close(); conn.close()
CloseBoth == conn' = 0 /\ cursor' = 0

\* ----- configuration: Database._load_params -----

\* str.lower() on the values of EngineVals
Lower(s) == IF s = "SQLITE" THEN "sqlite" ELSE s

\* "not data.get(k)"
Falsy(v) == v \in {"absent", "empty"}

RequiredKeys == <<"host", "user", "password", "database">>

\* "password" left out of required_keys
IsMissing_nopassword(cfg, k) == k # "password" /\ Falsy(cfg[k])

IsMissing(cfg, k) == Falsy(cfg[k])

MissingKeys(cfg) == SelectSeq(RequiredKeys, LAMBDA k : IsMissing(cfg, k))

\* another default than "mysql"
EngineOf_sqlite(cfg) ==
  Lower(IF cfg.engine = "absent" THEN "sqlite" ELSE cfg.engine)

\* str(data.get("engine", "mysql")).lower()
EngineOf(cfg) == Lower(IF cfg.engine = "absent" THEN "mysql" ELSE cfg.engine)

ParamsError(err, missing) ==
  [error |-> err, missing |-> missing, engine |-> "none", port |-> 0]

load_params(cfg) ==
  IF ~cfg.exists THEN ParamsError("FileNotFoundError", <<>>)
  ELSE IF EngineOf(cfg) \notin Engines THEN ParamsError("ValueError:engine", <<>>)
  ELSE IF EngineOf(cfg) = "mysql" THEN
    IF MissingKeys(cfg) # <<>>
    THEN ParamsError("ValueError:missing", MissingKeys(cfg))
    ELSE [error |-> "", missing |-> <<>>, engine |-> "mysql",
          port |-> IF cfg.port = 0 THEN DefaultPort ELSE cfg.port]
  ELSE
    IF Falsy(cfg.database)
    THEN ParamsError("ValueError:sqlite_database", <<>>)
    ELSE [error |-> "", missing |-> <<>>, engine |-> "sqlite", port |-> cfg.port]

\* ----- schema: Database.__init__ and Database._ensure_files_table -----

\* CREATE TABLE files (...), without IF NOT EXISTS
create_table(exists, rows, last) ==
  IF exists
  THEN [error |-> "TableExists", exists |-> TRUE, rows |-> rows, seq |-> last]
  ELSE [error |-> "", exists |-> TRUE, rows |-> {}, seq |-> 0]

\* DROP TABLE and CREATE TABLE
create_table_recreated(exists, rows, last) ==
  [error |-> "", exists |-> TRUE, rows |-> {}, seq |-> last]

\* CREATE TABLE IF NOT EXISTS files (...), on the table state
\* <<exists, rows, last id>>
create_table_if_not_exists(exists, rows, last) ==
  IF exists
  THEN [error |-> "", exists |-> TRUE, rows |-> rows, seq |-> last]
  ELSE [error |-> "", exists |-> TRUE, rows |-> {}, seq |-> 0]

\* __init__ up to the get_connection() of _ensure_files_table
init_connect ==
  /\ pc = "idle"
  /\ LET p == load_params(config)
         c == [NoCall EXCEPT !.op = "__init__", !.engine = p.engine]
     IN IF p.error # ""
        THEN /\ ret' = [Raised(c, p.error) EXCEPT !.missing = p.missing]
             /\ pre' = {}
             /\ UNCHANGED <<script, gen, gui, export, config, store, db, pc, call, conn, cursor, leaked, ghost>>
        ELSE /\ pre' = files[p.engine]
             /\ \/ /\ ret' = Raised([c EXCEPT !.attempts = 1], "ConnectionError")
                   /\ UNCHANGED <<script, gen, gui, export, config, store, db, pc, call, conn, cursor, leaked, ghost>>
                \/ /\ conn' = conn + 1
                   /\ pc' = "ensure_cursor"
                   /\ call' = [c EXCEPT !.attempts = 1]
                   /\ ret' = NoRet
                   /\ UNCHANGED <<script, gen, gui, export, config, store, db, cursor, leaked, ghost>>

\* cursor = conn.cursor(), before the try
ensure_cursor ==
  /\ pc = "ensure_cursor"
  /\ \/ /\ leaked < MaxLeaked
        /\ leaked' = leaked + conn
        /\ conn' = 0
        /\ Finish(Raised(call, "CursorError"))
        /\ UNCHANGED <<script, gen, gui, export, config, store, db, cursor, pre, ghost>>
     \/ /\ cursor' = cursor + 1
        /\ pc' = "ensure_execute"
        /\ UNCHANGED <<script, gen, gui, export, config, store, db, call, conn, leaked, ret, pre, ghost>>

\* cursor.execute(CREATE TABLE IF NOT EXISTS ...)
ensure_execute ==
  /\ pc = "ensure_execute"
  /\ LET e == call.engine
         t == create_table_if_not_exists(tableExists[e], files[e], seq[e])
     IN \/ /\ CloseBoth
           /\ Finish(Raised(call, "StatementError"))
           /\ UNCHANGED <<script, gen, gui, export, config, store, db, leaked, pre, ghost>>
        \/ /\ t.error # ""
           /\ CloseBoth
           /\ Finish(Raised(call, t.error))
           /\ UNCHANGED <<script, gen, gui, export, config, store, db, leaked, pre, ghost>>
        \/ /\ t.error = ""
           /\ tableExists' = [tableExists EXCEPT ![e] = t.exists]
           /\ files' = [files EXCEPT ![e] = t.rows]
           /\ seq' = [seq EXCEPT ![e] = t.seq]
           /\ pc' = "ensure_commit"
           /\ UNCHANGED <<script, gen, gui, export, config, db, call, conn, cursor, leaked, ret, pre, ghost>>

\* conn.commit(), then the finally block and the end of __init__
ensure_commit ==
  /\ pc = "ensure_commit"
  /\ CloseBoth
  /\ \/ /\ Finish(Raised(call, "CommitError"))
        /\ UNCHANGED <<script, gen, gui, export, config, store, db, leaked, pre, ghost>>
     \/ /\ db' = call.engine
        /\ Finish(Returned(call))
        /\ UNCHANGED <<script, gen, gui, export, config, store, leaked, pre, ghost>>

\* ----- Database.check_connection -----

\* conn.close() left out
close_connection_skipped(n) == n

\* conn.close() on the connections that are open
close_connection(n) == n - 1

\* check_connection() up to get_connection(); when that raises, the except
\* clause prints the error and returns False
check_connect ==
  /\ pc = "idle"
  /\ db \in Engines
  /\ LET c == [NoCall EXCEPT !.op = "check_connection", !.engine = db,
                              !.attempts = 1]
     IN /\ pre' = files[db]
        /\ \/ /\ ret' = [Returned(c) EXCEPT !.ok = FALSE]
              /\ UNCHANGED <<script, gen, gui, export, config, store, db, pc, call, conn, cursor, leaked,
                             ghost>>
           \/ /\ conn' = conn + 1
              /\ pc' = "check_close"
              /\ call' = [c EXCEPT !.connected = TRUE]
              /\ ret' = NoRet
              /\ UNCHANGED <<script, gen, gui, export, config, store, db, cursor, leaked, ghost>>

\* conn.close(); return True
check_close ==
  /\ pc = "check_close"
  /\ conn' = close_connection(conn)
  /\ Finish([Returned(call) EXCEPT !.ok = TRUE])
  /\ UNCHANGED <<script, gen, gui, export, config, store, db, cursor, leaked, pre, ghost>>

\* ----- Database.insert_file -----

\* a plain INTEGER PRIMARY KEY without AUTOINCREMENT: one more than the
\* greatest id in the table
next_rowid_reuse(rows, last) == Max(Ids(rows)) + 1

\* the id AUTO_INCREMENT / AUTOINCREMENT gives the next row: one more than
\* the last id handed out, whether or not that row still exists
next_rowid(rows, last) == last + 1

\* the row with the size and the digest taken from the bytes
insert_row_recomputed(id, u) ==
  Row(id, <<u[1], u[2], Len(u[4]), u[4], Digest(u[4])>>)

\* the values bound in another order than the columns
insert_row_swapped(id, u) == Row(id, <<u[2], u[1], u[3], u[4], u[5]>>)

\* the row INSERT INTO files (...) VALUES (%s, %s, %s, %s, %s) stores
insert_row(id, u) == Row(id, u)

\* INSERT that skips content the table already holds
insert_into_dedup(rows, id, u) ==
  IF \E r \in rows : r.sha256 = u[5] /\ r.file_data = u[4]
  THEN rows
  ELSE rows \cup {insert_row(id, u)}

\* the table after the INSERT is committed
insert_into(rows, id, u) == rows \cup {insert_row(id, u)}

\* insert_file(*u) up to get_connection()
insert_connect(u) ==
  /\ pc = "idle"
  /\ db \in Engines
  /\ seq[db] < MaxIds
  /\ LET c == [NoCall EXCEPT !.op = "insert_file", !.engine = db,
                              !.upload = u, !.attempts = 1]
     IN /\ pre' = files[db]
        /\ \/ /\ ret' = Raised(c, "ConnectionError")
              /\ UNCHANGED <<script, gen, gui, export, config, store, db, pc, call, conn, cursor, leaked, ghost>>
           \/ /\ conn' = conn + 1
              /\ pc' = "insert_cursor"
              /\ call' = c
              /\ ret' = NoRet
              /\ UNCHANGED <<script, gen, gui, export, config, store, db, cursor, leaked, ghost>>

\* cursor = conn.cursor(), before the try
insert_cursor ==
  /\ pc = "insert_cursor"
  /\ \/ /\ leaked < MaxLeaked
        /\ leaked' = leaked + conn
        /\ conn' = 0
        /\ Finish(Raised(call, "CursorError"))
        /\ UNCHANGED <<script, gen, gui, export, config, store, db, cursor, pre, ghost>>
     \/ /\ cursor' = cursor + 1
        /\ pc' = "insert_execute"
        /\ UNCHANGED <<script, gen, gui, export, config, store, db, call, conn, leaked, ret, pre, ghost>>

\* cursor.execute(INSERT ...): the row is pending in the open transaction;
\* MySQL's counter moves at once and is not rolled back, SQLite's
\* sqlite_sequence moves with the transaction
insert_execute ==
  /\ pc = "insert_execute"
  /\ LET e == call.engine
         id == next_rowid(files[e], seq[e])
     IN \/ /\ CloseBoth
           /\ Finish(Raised(call, "StatementError"))
           /\ UNCHANGED <<script, gen, gui, export, config, store, db, leaked, pre, ghost>>
        \/ /\ call' = [call EXCEPT !.rowid = id]
           /\ seq' = IF e = "mysql" THEN [seq EXCEPT ![e] = id] ELSE seq
           /\ pc' = "insert_commit"
           /\ UNCHANGED <<script, gen, gui, export, config, files, tableExists, db, conn, cursor, leaked, ret,
                          pre, ghost>>

\* conn.commit(); return int(cursor.lastrowid); the finally block
insert_commit ==
  /\ pc = "insert_commit"
  /\ CloseBoth
  /\ LET e == call.engine
         id == call.rowid
     IN \/ /\ Finish(Raised(call, "CommitError"))
           /\ UNCHANGED <<script, gen, gui, export, config, store, db, leaked, pre, ghost>>
        \/ /\ files' = [files EXCEPT ![e] = insert_into(@, id, call.upload)]
           /\ seq' = [seq EXCEPT ![e] = id]
           /\ inserted' = [inserted EXCEPT ![e] = @ \cup {<<id, call.upload>>}]
           /\ maxReturned' = [maxReturned EXCEPT ![e] = Max({@, id})]
           /\ Finish([Returned(call) EXCEPT !.id = id])
           /\ UNCHANGED <<script, gen, gui, export, config, tableExists, db, leaked, pre, removed, deletedOk>>

\* ----- Database.vacuum -----

\* vacuum() up to get_connection(); c holds the locals of the caller
vacuum_enter(c) ==
  IF c.engine # "sqlite"
  THEN /\ Finish(Returned(c))
       /\ UNCHANGED <<script, gen, gui, export, config, store, db, conn, cursor, leaked, ghost>>
  ELSE \/ /\ Finish(Raised([c EXCEPT !.attempts = @ + 1], "ConnectionError"))
          /\ UNCHANGED <<script, gen, gui, export, config, store, db, conn, cursor, leaked, ghost>>
       \/ /\ conn' = conn + 1
          /\ pc' = "vacuum_cursor"
          /\ call' = [c EXCEPT !.attempts = @ + 1]
          /\ ret' = NoRet
          /\ UNCHANGED <<script, gen, gui, export, config, store, db, cursor, leaked, ghost>>

\* vacuum() called on the Database object
vacuum ==
  /\ pc = "idle"
  /\ db \in Engines
  /\ pre' = files[db]
  /\ vacuum_enter([NoCall EXCEPT !.op = "vacuum", !.engine = db,
                                 !.caller = "api"])

\* the end of vacuum(): back in delete_file, which returns True, or back
\* at the caller of vacuum()
vacuum_return ==
  IF call.caller = "delete_file"
  THEN /\ Finish([Returned(call) EXCEPT !.ok = TRUE])
       /\ deletedOk' = [deletedOk EXCEPT ![call.engine] = @ \cup {call.id}]
       /\ UNCHANGED <<inserted, removed, maxReturned>>
  ELSE /\ Finish(Returned(call))
       /\ UNCHANGED ghost

\* cursor = conn.cursor(), before the try
vacuum_cursor ==
  /\ pc = "vacuum_cursor"
  /\ \/ /\ leaked < MaxLeaked
        /\ leaked' = leaked + 1
        /\ conn' = conn - 1
        /\ Finish(Raised(call, "CursorError"))
        /\ UNCHANGED <<script, gen, gui, export, config, store, db, cursor, pre, ghost>>
     \/ /\ cursor' = cursor + 1
        /\ pc' = "vacuum_execute"
        /\ UNCHANGED <<script, gen, gui, export, config, store, db, call, conn, leaked, ret, pre, ghost>>

\* cursor.execute("VACUUM"): the rows and the sequence stay as they are
vacuum_execute ==
  /\ pc = "vacuum_execute"
  /\ \/ /\ conn' = conn - 1
        /\ cursor' = cursor - 1
        /\ Finish(Raised(call, "StatementError"))
        /\ UNCHANGED <<script, gen, gui, export, config, store, db, leaked, pre, ghost>>
     \/ /\ call' = [call EXCEPT !.vacuumed = TRUE]
        /\ pc' = "vacuum_commit"
        /\ UNCHANGED <<script, gen, gui, export, config, store, db, conn, cursor, leaked, ret, pre, ghost>>

\* conn.commit() and the finally block
vacuum_commit ==
  /\ pc = "vacuum_commit"
  /\ conn' = conn - 1
  /\ cursor' = cursor - 1
  /\ \/ /\ Finish(Raised(call, "CommitError"))
        /\ UNCHANGED <<script, gen, gui, export, config, store, db, leaked, pre, ghost>>
     \/ /\ vacuum_return
        /\ UNCHANGED <<script, gen, gui, export, config, store, db, leaked, pre>>

\* ----- Database.delete_file -----

\* cursor.rowcount of DELETE FROM files WHERE id = %s
delete_rowcount(rows, id) == Cardinality({ r \in rows : r.id = id })

\* DELETE whose effect is not committed
delete_rows_kept(rows, id) == rows

\* DELETE without its WHERE clause
delete_rows_all(rows, id) == {}

\* the table after DELETE FROM files WHERE id = %s
delete_rows(rows, id) == { r \in rows : r.id # id }

\* delete_file(id, vacuum_after) up to get_connection()
delete_connect(id, va) ==
  /\ pc = "idle"
  /\ db \in Engines
  /\ LET c == [NoCall EXCEPT !.op = "delete_file", !.engine = db, !.id = id,
                              !.vacuum_after = va, !.attempts = 1]
     IN /\ pre' = files[db]
        /\ \/ /\ ret' = Raised(c, "ConnectionError")
              /\ UNCHANGED <<script, gen, gui, export, config, store, db, pc, call, conn, cursor, leaked, ghost>>
           \/ /\ conn' = conn + 1
              /\ pc' = "delete_cursor"
              /\ call' = c
              /\ ret' = NoRet
              /\ UNCHANGED <<script, gen, gui, export, config, store, db, cursor, leaked, ghost>>

\* cursor = conn.cursor(), before the try
delete_cursor ==
  /\ pc = "delete_cursor"
  /\ \/ /\ leaked < MaxLeaked
        /\ leaked' = leaked + conn
        /\ conn' = 0
        /\ Finish(Raised(call, "CursorError"))
        /\ UNCHANGED <<script, gen, gui, export, config, store, db, cursor, pre, ghost>>
     \/ /\ cursor' = cursor + 1
        /\ pc' = "delete_execute"
        /\ UNCHANGED <<script, gen, gui, export, config, store, db, call, conn, leaked, ret, pre, ghost>>

\* cursor.execute(DELETE ...); rows_affected = cursor.rowcount
delete_execute ==
  /\ pc = "delete_execute"
  /\ \/ /\ CloseBoth
        /\ Finish(Raised(call, "StatementError"))
        /\ UNCHANGED <<script, gen, gui, export, config, store, db, leaked, pre, ghost>>
     \/ /\ call' = [call EXCEPT !.rows_affected =
                                   delete_rowcount(files[call.engine], call.id)]
        /\ pc' = "delete_commit"
        /\ UNCHANGED <<script, gen, gui, export, config, store, db, conn, cursor, leaked, ret, pre, ghost>>

\* conn.commit() and what follows it: return False, or close the connection
\* and return True, or close the connection and go on to vacuum()
delete_commit ==
  /\ pc = "delete_commit"
  /\ CloseBoth
  /\ LET e == call.engine
         committed ==
           /\ files' = [files EXCEPT ![e] = delete_rows(@, call.id)]
           /\ inserted' = [inserted EXCEPT ![e] = { p \in @ : p[1] # call.id }]
           /\ removed' = [removed EXCEPT ![e] =
                            IF call.rows_affected = 0 THEN @ ELSE @ \cup {call.id}]
           /\ UNCHANGED <<script, gen, gui, export, config, seq, tableExists, db, leaked, pre, maxReturned>>
     IN \/ /\ Finish(Raised(call, "CommitError"))
           /\ UNCHANGED <<script, gen, gui, export, config, store, db, leaked, pre, ghost>>
        \/ /\ call.rows_affected = 0
           /\ committed
           /\ Finish([Returned(call) EXCEPT !.ok = FALSE])
           /\ UNCHANGED deletedOk
        \/ /\ call.rows_affected # 0
           /\ ~(call.vacuum_after /\ e = "sqlite")
           /\ committed
           /\ Finish([Returned(call) EXCEPT !.ok = TRUE])
           /\ deletedOk' = [deletedOk EXCEPT ![e] = @ \cup {call.id}]
        \/ /\ call.rows_affected # 0
           /\ call.vacuum_after /\ e = "sqlite"
           /\ committed
           /\ pc' = "vacuum_call"
           /\ call' = [call EXCEPT !.connection_closed = TRUE,
                                   !.caller = "delete_file"]
           /\ UNCHANGED <<ret, deletedOk>>

\* self.vacuum() inside delete_file
delete_vacuum ==
  /\ pc = "vacuum_call"
  /\ UNCHANGED pre
  /\ vacuum_enter(call)

\* ----- Database.query and the SELECT methods -----

\* ORDER BY id DESC
RECURSIVE order_by_id_desc(_)
order_by_id_desc(rows) ==
  IF rows = {} THEN <<>>
  ELSE LET r == CHOOSE x \in rows : \A y \in rows : y.id <= x.id
       IN <<r>> \o order_by_id_desc(rows \ {r})

\* "rows[0] if rows else None"; None is the empty sequence
first_or_none(rows) == IF rows # <<>> THEN <<rows[1]>> ELSE <<>>

None == <<>>

Metadata(r) ==
  [id |-> r.id, filename |-> r.filename, mime_type |-> r.mime_type,
   file_size |-> r.file_size, sha256 |-> r.sha256]

ExportFields(r) ==
  [filename |-> r.filename, file_data |-> r.file_data, sha256 |-> r.sha256]

\* the list without its ORDER BY: the rows in the order of their insertion
get_all_files_unordered(rows) ==
  LET sorted == order_by_id_desc(rows)
  IN [i \in 1..Len(sorted) |-> Metadata(sorted[Len(sorted) + 1 - i])]

\* SELECT id, filename, mime_type, file_size, sha256 FROM files ORDER BY id DESC
get_all_files(rows) ==
  LET sorted == order_by_id_desc(rows)
  IN [i \in 1..Len(sorted) |-> Metadata(sorted[i])]

\* SELECT id, ..., file_data, sha256 FROM files WHERE id = %s
get_file_by_id(rows, id) ==
  first_or_none(order_by_id_desc({ r \in rows : r.id = id }))

\* the export query without its WHERE clause: the last row
get_file_for_export_last(rows, id) ==
  LET found == order_by_id_desc(rows)
  IN first_or_none([i \in 1..Len(found) |-> ExportFields(found[i])])

\* SELECT filename, file_data, sha256 FROM files WHERE id = %s
get_file_for_export(rows, id) ==
  LET found == order_by_id_desc({ r \in rows : r.id = id })
  IN first_or_none([i \in 1..Len(found) |-> ExportFields(found[i])])

\* SELECT ... FROM files ORDER BY id DESC LIMIT 1
get_last_file(rows) ==
  LET sorted == order_by_id_desc(rows)
  IN first_or_none(SubSeq(sorted, 1, IF Len(sorted) < 1 THEN Len(sorted) ELSE 1))

QueryOps ==
  {"get_all_files", "get_file_by_id", "get_file_for_export", "get_last_file"}

\* what the method op returns on the table rows
query_result(op, rows, id) ==
  CASE op = "get_all_files" -> get_all_files(rows)
    [] op = "get_file_by_id" -> get_file_by_id(rows, id)
    [] op = "get_file_for_export" -> get_file_for_export(rows, id)
    [] OTHER -> get_last_file(rows)

\* a SELECT method up to the get_connection() of query(); id is 0 for the
\* methods without an argument
query_connect(op, id) ==
  /\ pc = "idle"
  /\ db \in Engines
  /\ (id # 0) = (op \in {"get_file_by_id", "get_file_for_export"})
  /\ LET c == [NoCall EXCEPT !.op = op, !.engine = db, !.id = id,
                              !.attempts = 1]
     IN /\ pre' = files[db]
        /\ \/ /\ ret' = Raised(c, "ConnectionError")
              /\ UNCHANGED <<script, gen, gui, export, config, store, db, pc, call, conn, cursor, leaked, ghost>>
           \/ /\ conn' = conn + 1
              /\ pc' = "query_cursor"
              /\ call' = c
              /\ ret' = NoRet
              /\ UNCHANGED <<script, gen, gui, export, config, store, db, cursor, leaked, ghost>>

\* cursor = conn.cursor(...), inside the try: when it raises, the finally
\* block fails on the unbound name cursor before it reaches conn.close()
query_cursor ==
  /\ pc = "query_cursor"
  /\ \/ /\ leaked < MaxLeaked
        /\ leaked' = leaked + conn
        /\ conn' = 0
        /\ Finish(Raised(call, "UnboundLocalError"))
        /\ UNCHANGED <<script, gen, gui, export, config, store, db, cursor, pre, ghost>>
     \/ /\ cursor' = cursor + 1
        /\ pc' = "query_execute"
        /\ UNCHANGED <<script, gen, gui, export, config, store, db, call, conn, leaked, ret, pre, ghost>>

\* cursor.execute(SELECT ...); rows = cursor.fetchall(); return; finally
query_execute ==
  /\ pc = "query_execute"
  /\ CloseBoth
  /\ \/ Finish(Raised(call, "StatementError"))
     \/ Finish([Returned(call) EXCEPT
                  !.rows = query_result(call.op, files[call.engine], call.id)])
  /\ UNCHANGED <<script, gen, gui, export, config, store, db, leaked, pre, ghost>>

\* ----- the store as a whole -----

\* the configurations with which files are stored: MySQL by default, SQLite
StoreConfigs ==
  { cfg \in Configs :
      /\ cfg.exists
      /\ cfg.engine \in {"absent", "SQLITE"}
      /\ cfg.host = "set" /\ cfg.user = "set" /\ cfg.password = "set"
      /\ cfg.database = "set"
      /\ cfg.port = 0 }

IdArgs == 1..MaxIds

InitStore ==
  /\ files = [e \in Engines |-> {}]
  /\ seq = [e \in Engines |-> 0]
  /\ tableExists = [e \in Engines |-> FALSE]
  /\ db = "none"
  /\ pc = "idle"
  /\ call = NoCall
  /\ conn = 0
  /\ cursor = 0
  /\ leaked = 0
  /\ ret = NoRet
  /\ pre = {}
  /\ inserted = [e \in Engines |-> {}]
  /\ removed = [e \in Engines |-> {}]
  /\ deletedOk = [e \in Engines |-> {}]
  /\ maxReturned = [e \in Engines |-> 0]
  /\ export = NoExport
  /\ script = NoScript

Init == config \in StoreConfigs /\ InitStore /\ gui = NoGui /\ gen = NoGen


Next ==
  \/ init_connect
  \/ ensure_cursor
  \/ ensure_execute
  \/ ensure_commit
  \/ check_connect
  \/ check_close
  \/ \E u \in Uploads : insert_connect(u)
  \/ insert_cursor
  \/ insert_execute
  \/ insert_commit
  \/ \E id \in IdArgs, va \in BOOLEAN : delete_connect(id, va)
  \/ delete_cursor
  \/ delete_execute
  \/ delete_commit
  \/ delete_vacuum
  \/ vacuum
  \/ vacuum_cursor
  \/ vacuum_execute
  \/ vacuum_commit
  \/ \E op \in QueryOps, id \in {0} \cup IdArgs : query_connect(op, id)
  \/ query_cursor
  \/ query_execute

Spec == Init /\ [][Next]_vars

\* construction alone, on every configuration
NextConfig ==
  \/ init_connect
  \/ ensure_cursor
  \/ ensure_execute
  \/ ensure_commit

InitConfig == config \in Configs /\ InitStore /\ gui = NoGui /\ gen = NoGen

SpecConfig == InitConfig /\ [][NextConfig]_vars

TypeOK ==
  /\ db \in Engines \cup {"none"}
  /\ conn \in 0..2 /\ cursor \in 0..2 /\ leaked \in 0..MaxLeaked
  /\ \A e \in Engines : seq[e] \in 0..MaxIds /\ Ids(files[e]) \subseteq 1..MaxIds

\* ----- gui_app: FileStorageGUI -----

\* the files the user can pick in the file dialog: <<name, contents>>
GuiFiles == { <<"a.txt", <<1, 2>>>>, <<"b", <<3>>>> }

\* mimetypes.guess_type(name)[0]; "" is None
guess_type(name) == IF name = "a.txt" THEN "text/plain" ELSE ""

\* the digest of something else than the contents
file_metadata_stale(name, contents) ==
  <<name,
    IF guess_type(name) = "" THEN "application/octet-stream"
    ELSE guess_type(name),
    Len(contents), contents, Digest(<<0>>)>>

\* the arguments add_file computes for insert_file
file_metadata(name, contents) ==
  <<name,
    IF guess_type(name) = "" THEN "application/octet-stream"
    ELSE guess_type(name),
    Len(contents), contents, Digest(contents)>>

\* _get_current_engine(): the engine of db_param.json, "mysql" without one
get_current_engine(cfg) == EngineOf(cfg)

\* _switch_database keeps the configuration file it found
switch_config_kept(cfg, engine) == cfg

\* the db_param.json _switch_database(engine) writes
switch_config(cfg, engine) ==
  [cfg EXCEPT !.exists = TRUE,
              !.engine = Lower(engine),
              !.database = IF Lower(engine) = "sqlite" /\ Falsy(@)
                           THEN "set" ELSE @]

\* a handler starts: its locals are fresh
Begin(h) ==
  [gui EXCEPT !.handler = h, !.done = "none", !.current = "none",
              !.before = "none", !.selected = 0, !.upload = NoUpload]

\* a handler returns
Done(g) == [g EXCEPT !.stage = "idle", !.done = g.handler,
                     !.handler = "none", !.selected = 0,
                     !.upload = NoUpload]

\* refresh_files() up to get_all_files(): nothing without a Database,
\* otherwise the tree is cleared first
start_refresh(d, g) ==
  IF d = "none" THEN Done(g)
  ELSE [g EXCEPT !.tree = {}, !.stage = "refresh"]

\* the frame of a step of the window that calls no method of Database
GuiStep ==
  /\ ret' = NoRet
  /\ UNCHANGED <<store, pc, call, conn, cursor, leaked, pre, ghost, export,
                 script, gen>>

\* _load_database(): Database(config_path)
load_database ==
  /\ gui.stage = "load_database"
  /\ ret = NoRet
  /\ init_connect

\* _load_database() after Database(...): self.db is None when it raised.
\* In __init__ the widgets are built next (the combo box shows the engine
\* of db_param.json) and refresh_files() is called; in _switch_database
\* the combo box shows the new engine and refresh_files() is called, or
\* the combo box goes back to the engine read before the switch.
load_database_done ==
  /\ gui.stage = "load_database"
  /\ pc = "idle"
  /\ ret.op = "__init__"
  /\ LET d == IF ret.status = "returned" THEN db ELSE "none"
     IN /\ db' = d
        /\ gui' = IF gui.handler = "__init__"
                  THEN start_refresh(d,
                         [gui EXCEPT !.combo = get_current_engine(config)])
                  ELSE IF d # "none"
                  THEN start_refresh(d, [gui EXCEPT !.combo = Lower(d)])
                  ELSE Done([gui EXCEPT !.combo = gui.current])
  /\ GuiStep
  /\ UNCHANGED config

\* the Refresh button
refresh_files ==
  /\ gui.stage = "idle"
  /\ pc = "idle"
  /\ gui' = start_refresh(db, Begin("refresh_files"))
  /\ GuiStep
  /\ UNCHANGED <<config, db>>

\* refresh_files(): rows = self.db.get_all_files()
refresh_query ==
  /\ gui.stage = "refresh"
  /\ ret = NoRet
  /\ query_connect("get_all_files", 0)

\* refresh_files() after get_all_files(): the rows are put into the tree;
\* when the call raised, an error is shown and the tree stays cleared
refresh_done ==
  /\ gui.stage = "refresh"
  /\ pc = "idle"
  /\ ret.op = "get_all_files"
  /\ gui' = Done([gui EXCEPT !.tree =
                    IF ret.status = "returned"
                    THEN { ret.rows[i].id : i \in 1..Len(ret.rows) }
                    ELSE @])
  /\ GuiStep
  /\ UNCHANGED <<config, db>>

\* add_file() up to insert_file: without a Database an error is shown;
\* when the file cannot be read the except clause shows an error
add_file(f) ==
  /\ gui.stage = "idle"
  /\ pc = "idle"
  /\ seq["mysql"] + seq["sqlite"] < MaxIds
  /\ \/ gui' = IF db = "none" THEN Done(Begin("add_file"))
               ELSE [Begin("add_file") EXCEPT
                       !.stage = "add_file",
                       !.upload = file_metadata(f[1], f[2])]
     \/ gui' = Done(Begin("add_file"))
  /\ GuiStep
  /\ UNCHANGED <<config, db>>

\* add_file(): self.db.insert_file(...)
add_file_insert ==
  /\ gui.stage = "add_file"
  /\ ret = NoRet
  /\ insert_connect(gui.upload)

\* add_file() after insert_file: refresh_files(), or the except clause
add_file_done ==
  /\ gui.stage = "add_file"
  /\ pc = "idle"
  /\ ret.op = "insert_file"
  /\ gui' = IF ret.status = "returned" THEN start_refresh(db, gui)
            ELSE Done(gui)
  /\ GuiStep
  /\ UNCHANGED <<config, db>>

\* delete_selected() up to delete_file, for the row selected in the tree
\* and a confirmed question
delete_selected(id) ==
  /\ gui.stage = "idle"
  /\ pc = "idle"
  /\ id \in gui.tree
  /\ gui' = IF db = "none" THEN Done(Begin("delete_selected"))
            ELSE [Begin("delete_selected") EXCEPT
                    !.stage = "delete_selected", !.selected = id]
  /\ GuiStep
  /\ UNCHANGED <<config, db>>

\* delete_selected(): self.db.delete_file(file_id, vacuum_after=True)
delete_selected_delete ==
  /\ gui.stage = "delete_selected"
  /\ ret = NoRet
  /\ delete_connect(gui.selected, TRUE)

\* delete_selected() after delete_file: refresh_files() when it returned,
\* True or False; an error and no refresh when it raised
delete_selected_done ==
  /\ gui.stage = "delete_selected"
  /\ pc = "idle"
  /\ ret.op = "delete_file"
  /\ gui' = IF ret.status = "returned" THEN start_refresh(db, gui)
            ELSE Done(gui)
  /\ GuiStep
  /\ UNCHANGED <<config, db>>

\* _on_db_selected() for the engine picked in the combo box and the answer
\* to the question; with the answer yes, _switch_database(new_engine) up to
\* _load_database(): db_param.json is written, or writing it raises and
\* the combo box goes back
on_db_selected(new_engine, yes) ==
  /\ gui.stage = "idle"
  /\ pc = "idle"
  /\ gui.combo # "none"
  /\ LET current_engine == get_current_engine(config)
         g == [Begin("_on_db_selected") EXCEPT !.combo = new_engine,
                 !.current = current_engine, !.before = db]
     IN IF new_engine = current_engine
        THEN gui' = Done(g) /\ UNCHANGED config
        ELSE IF ~yes
        THEN gui' = Done([g EXCEPT !.combo = current_engine])
             /\ UNCHANGED config
        ELSE \/ /\ config' = switch_config(config, new_engine)
                /\ gui' = [g EXCEPT !.handler = "_switch_database",
                                    !.stage = "load_database"]
             \/ /\ gui' = Done([g EXCEPT !.handler = "_switch_database",
                                         !.combo = current_engine])
                /\ UNCHANGED config
  /\ GuiStep
  /\ UNCHANGED db

\* the window from its construction on, with no other client of the tables
NextGui ==
  \/ load_database
  \/ ensure_cursor
  \/ ensure_execute
  \/ ensure_commit
  \/ load_database_done
  \/ refresh_files
  \/ refresh_query
  \/ query_cursor
  \/ query_execute
  \/ refresh_done
  \/ \E f \in GuiFiles : add_file(f)
  \/ add_file_insert
  \/ insert_cursor
  \/ insert_execute
  \/ insert_commit
  \/ add_file_done
  \/ \E id \in IdArgs : delete_selected(id)
  \/ delete_selected_delete
  \/ delete_cursor
  \/ delete_execute
  \/ delete_commit
  \/ delete_vacuum
  \/ vacuum_cursor
  \/ vacuum_execute
  \/ vacuum_commit
  \/ delete_selected_done
  \/ \E e \in Engines, yes \in BOOLEAN : on_db_selected(e, yes)

\* FileStorageGUI.__init__: self.db = None, then _load_database()
InitGui ==
  /\ config \in StoreConfigs
  /\ InitStore
  /\ gui = [NoGui EXCEPT !.stage = "load_database", !.handler = "__init__"]
  /\ gen = NoGen

SpecGui == InitGui /\ [][NextGui]_vars

\* ----- exports: FileStorageGUI.export_selected and sql_app.save_backup_file -----

\* a copy on disk that differs from the bytes written
corrupted(bytes) ==
  IF bytes = <<>> THEN <<0>> ELSE <<(Head(bytes) + 1) % 4>> \o Tail(bytes)

\* what f.read() can give after f.write(bytes)
ReadBack(bytes) == {bytes, corrupted(bytes)}

\* the saved file compared with the bytes of the row, not with its digest
export_report_bytes(row, data) ==
  IF data = row.file_data THEN "OK" ELSE "mismatch"

\* export_selected: sha == row["sha256"], sha the digest of the bytes read
export_report(row, data) ==
  IF Digest(data) = row.sha256 THEN "OK" ELSE "mismatch"

\* save_backup_file: calculated_sha256 == row["sha256"]
file_check(row, data) ==
  IF Digest(data) = row.sha256 THEN "OK" ELSE "mismatch"

\* the file written, read back as data and reported
Exported(by, row, data, report) ==
  [by |-> by, row |-> <<row>>, written |-> <<row.file_data>>,
   read |-> <<data>>, report |-> report, raised |-> FALSE]

\* the file written and an OSError when it is read back
ReadFailed(by, row) ==
  [by |-> by, row |-> <<row>>, written |-> <<row.file_data>>,
   read |-> <<>>, report |-> "none", raised |-> TRUE]

\* an OSError when the file is opened for writing or written; export_selected
\* shows it as an error, save_backup_file lets it pass
WriteFailed(by, row) ==
  [by |-> by, row |-> <<row>>, written |-> <<>>, read |-> <<>>,
   report |-> "none", raised |-> (by = "save_backup_file")]

\* a caller of insert_file next to the window, with arguments of its own
api_insert(u) ==
  /\ gui.stage = "idle"
  /\ db \in Engines
  /\ seq[db] < MaxExportIds
  /\ insert_connect(u)

\* export_selected() up to get_file_for_export, for the row selected
export_selected(id) ==
  /\ gui.stage = "idle"
  /\ pc = "idle"
  /\ id \in gui.tree
  /\ gui' = IF db = "none" THEN Done(Begin("export_selected"))
            ELSE [Begin("export_selected") EXCEPT
                    !.stage = "export_selected", !.selected = id]
  /\ GuiStep
  /\ UNCHANGED <<config, db>>

\* export_selected(): row = self.db.get_file_for_export(file_id)
export_query ==
  /\ gui.stage = "export_selected"
  /\ ret = NoRet
  /\ query_connect("get_file_for_export", gui.selected)

\* export_selected() after get_file_for_export: an error when it raised or
\* found no row; otherwise the save dialog (which can be cancelled), the
\* file is written, read back and compared
export_done ==
  /\ gui.stage = "export_selected"
  /\ pc = "idle"
  /\ ret.op = "get_file_for_export"
  /\ gui' = Done(gui)
  /\ IF ret.status = "raised" \/ ret.rows = None
     THEN UNCHANGED export
     ELSE LET row == ret.rows[1]
          IN \/ UNCHANGED export
             \/ export' = WriteFailed("export_selected", row)
             \/ export' = ReadFailed("export_selected", row)
             \/ \E data \in ReadBack(row.file_data) :
                  export' = Exported("export_selected", row, data,
                                     export_report(row, data))
  /\ ret' = NoRet
  /\ UNCHANGED <<config, store, db, pc, call, conn, cursor, leaked, pre, ghost,
                 script, gen>>

\* sql_app.main: row = db.get_last_file()
main_get_last_file ==
  /\ gui.stage = "idle"
  /\ query_connect("get_last_file", 0)

\* sql_app.main after get_last_file: save_backup_file(base_dir, row) unless
\* there is no row
save_backup_file ==
  /\ gui.stage = "idle"
  /\ pc = "idle"
  /\ ret.op = "get_last_file"
  /\ ret.status = "returned"
  /\ IF ret.rows = None
     THEN UNCHANGED export
     ELSE LET row == ret.rows[1]
          IN \/ export' = WriteFailed("save_backup_file", row)
             \/ export' = ReadFailed("save_backup_file", row)
             \/ \E data \in ReadBack(row.file_data) :
                  export' = Exported("save_backup_file", row, data,
                                     file_check(row, data))
  /\ ret' = NoRet
  /\ UNCHANGED <<config, store, db, pc, call, conn, cursor, leaked, pre, ghost,
                 gui, script, gen>>

\* the window and the script exporting from tables any caller has filled
NextExport ==
  \/ load_database
  \/ ensure_cursor
  \/ ensure_execute
  \/ ensure_commit
  \/ load_database_done
  \/ refresh_files
  \/ refresh_query
  \/ refresh_done
  \/ \E u \in Uploads : api_insert(u)
  \/ insert_cursor
  \/ insert_execute
  \/ insert_commit
  \/ \E id \in IdArgs : export_selected(id)
  \/ export_query
  \/ export_done
  \/ main_get_last_file
  \/ query_cursor
  \/ query_execute
  \/ save_backup_file

SpecExport == InitGui /\ [][NextExport]_vars

\* ----- random_data: create_random_file -----

\* the values of size_mb
SizesMb == (0 - 1)..MaxSizeMb

\* the output file before the call: none, or an older file of 5 bytes
OldFiles == { <<>>, <<5>> }

\* chunk_size = 1024 * 1024
chunk_size == 1024 * 1024

\* range(10000)
numbers_per_chunk == 10000

\* len(str(random.randint(0, 9)))
digit_len == 1

\* len((" ".join(numbers) + "\n").encode("utf-8")): the digits, a blank
\* between two of them and the newline, one byte each
chunk_len == numbers_per_chunk * digit_len + (numbers_per_chunk - 1) + 1

min(a, b) == IF a < b THEN a ELSE b

\* the chunk cut to chunk_size alone
data_len_uncut(remaining) ==
  IF chunk_len > chunk_size THEN chunk_size ELSE chunk_len

\* len(data) after "if len(data) > min(chunk_size, remaining): data = data[:min(...)]"
data_len(remaining) ==
  IF chunk_len > min(chunk_size, remaining)
  THEN min(chunk_size, remaining)
  ELSE chunk_len

\* create_random_file(size_mb, output_path) up to the loop: ValueError for
\* size_mb <= 0; otherwise output_path.open("wb") creates or truncates the
\* file, or raises OSError
create_random_file(size_mb) ==
  /\ gen.pc = "idle"
  /\ LET g == [gen EXCEPT !.size_mb = size_mb, !.total_bytes = 0,
                          !.bytes_written = 0, !.error = "",
                          !.before = gen.file]
     IN IF size_mb <= 0
        THEN gen' = [g EXCEPT !.pc = "raised", !.error = "ValueError"]
        ELSE \/ gen' = [g EXCEPT !.pc = "raised", !.error = "OSError",
                                 !.total_bytes = size_mb * 1024 * 1024]
             \/ gen' = [g EXCEPT !.pc = "loop", !.file = <<0>>,
                                 !.total_bytes = size_mb * 1024 * 1024]
  /\ UNCHANGED <<config, store, db, pc, call, conn, cursor, leaked, ret, pre,
                 ghost, gui, export, script>>

\* one iteration of "while bytes_written < total_bytes": f.write(data),
\* which can raise OSError, and bytes_written += len(data)
write_chunk ==
  /\ gen.pc = "loop"
  /\ gen.bytes_written < gen.total_bytes
  /\ LET remaining == gen.total_bytes - gen.bytes_written
         n == data_len(remaining)
     IN \/ gen' = [gen EXCEPT !.pc = "raised", !.error = "OSError"]
        \/ gen' = [gen EXCEPT !.bytes_written = @ + n,
                              !.file = <<gen.file[1] + n>>]
  /\ UNCHANGED <<config, store, db, pc, call, conn, cursor, leaked, ret, pre,
                 ghost, gui, export, script>>

\* the loop ends, the file is closed and the function returns
loop_exit ==
  /\ gen.pc = "loop"
  /\ ~(gen.bytes_written < gen.total_bytes)
  /\ gen' = [gen EXCEPT !.pc = "done"]
  /\ UNCHANGED <<config, store, db, pc, call, conn, cursor, leaked, ret, pre,
                 ghost, gui, export, script>>

NextGen ==
  \/ \E size_mb \in SizesMb : create_random_file(size_mb)
  \/ write_chunk
  \/ loop_exit

InitGen ==
  /\ config \in StoreConfigs
  /\ InitStore
  /\ gui = NoGui
  /\ \E old \in OldFiles : gen = [NoGen EXCEPT !.file = old]

\* the loop is not stopped from outside: a step that can be taken is taken
SpecGen == InitGen /\ [][NextGen]_vars /\ WF_vars(write_chunk) /\ WF_vars(loop_exit)

\* ----- sql_app: main -----

\* the contents random_data.bin can have
ScriptFiles == { <<"random_data.bin", <<1, 2>>>>, <<"random_data.bin", <<3>>>> }

\* compute_file_metadata(file_path, file_contents)
compute_file_metadata(name, contents) ==
  <<name,
    IF guess_type(name) = "" THEN "application/octet-stream"
    ELSE guess_type(name),
    Len(contents), contents, Digest(contents)>>

\* the script ends: by a return or by an exception nobody catches
Ended(how) == [script EXCEPT !.stage = "idle", !.done = how]

\* the frame of a step of main between two calls of Database
ScriptStep ==
  /\ ret' = NoRet
  /\ UNCHANGED <<config, store, db, pc, call, conn, cursor, leaked, pre, ghost,
                 gui, gen>>

\* python sql_app.py
main ==
  /\ script.stage = "idle"
  /\ pc = "idle"
  /\ seq["mysql"] + seq["sqlite"] < MaxIds
  /\ script' = [NoScript EXCEPT !.stage = "Database"]
  /\ ScriptStep
  /\ UNCHANGED export

\* main: db = Database(config_path=db_param_path)
main_Database ==
  /\ script.stage = "Database"
  /\ ret = NoRet
  /\ init_connect

\* main after Database(...): an exception ends the script
main_Database_done ==
  /\ script.stage = "Database"
  /\ pc = "idle"
  /\ ret.op = "__init__"
  /\ script' = IF ret.status = "returned"
               THEN [script EXCEPT !.stage = "check_connection"]
               ELSE Ended("raised")
  /\ ScriptStep
  /\ UNCHANGED export

\* main: check_connection(db), which prints what db.check_connection() says
main_check_connection ==
  /\ script.stage = "check_connection"
  /\ ret = NoRet
  /\ check_connect

\* main after check_connection: read_file_bytes(file_path), which can raise
\* OSError, and compute_file_metadata
main_read_file ==
  /\ script.stage = "check_connection"
  /\ pc = "idle"
  /\ ret.op = "check_connection"
  /\ \/ script' = Ended("raised")
     \/ \E f \in ScriptFiles :
          script' = [script EXCEPT !.stage = "insert_file",
                                   !.upload = compute_file_metadata(f[1], f[2])]
  /\ ScriptStep
  /\ UNCHANGED export

\* main: file_id = db.insert_file(...)
main_insert_file ==
  /\ script.stage = "insert_file"
  /\ ret = NoRet
  /\ insert_connect(script.upload)

\* main after insert_file: file_id is what it returned
main_inserted ==
  /\ script.stage = "insert_file"
  /\ pc = "idle"
  /\ ret.op = "insert_file"
  /\ script' = IF ret.status = "returned"
               THEN [script EXCEPT !.stage = "get_last_file",
                                   !.file_id = ret.id]
               ELSE Ended("raised")
  /\ ScriptStep
  /\ UNCHANGED export

\* another client of the same table calls insert_file between the two
\* calls of main
client_insert(u) ==
  /\ script.stage = "get_last_file"
  /\ ret.op # "get_last_file"
  /\ insert_connect(u)

\* another client of the same table calls delete_file, as the window does,
\* between the two calls of main
client_delete(id) ==
  /\ script.stage = "get_last_file"
  /\ ret.op # "get_last_file"
  /\ delete_connect(id, TRUE)

\* main: row = db.get_last_file()
main_get_last ==
  /\ script.stage = "get_last_file"
  /\ ret.op # "get_last_file"
  /\ query_connect("get_last_file", 0)

\* main after get_last_file: without a row it prints "No file found" and
\* returns; otherwise save_backup_file(base_dir, row)
main_save_backup ==
  /\ script.stage = "get_last_file"
  /\ pc = "idle"
  /\ ret.op = "get_last_file"
  /\ IF ret.status = "raised"
     THEN script' = Ended("raised") /\ UNCHANGED export
     ELSE IF ret.rows = None
     THEN script' = Ended("no file") /\ UNCHANGED export
     ELSE LET row == ret.rows[1]
          IN /\ script' = [Ended("saved") EXCEPT !.row = <<row>>]
             /\ \/ export' = WriteFailed("save_backup_file", row)
                \/ export' = ReadFailed("save_backup_file", row)
                \/ \E data \in ReadBack(row.file_data) :
                     export' = Exported("save_backup_file", row, data,
                                        file_check(row, data))
  /\ ScriptStep

\* the script, run any number of times, and another client of its table
NextScript ==
  \/ main
  \/ main_Database
  \/ ensure_cursor
  \/ ensure_execute
  \/ ensure_commit
  \/ main_Database_done
  \/ main_check_connection
  \/ check_close
  \/ main_read_file
  \/ main_insert_file
  \/ insert_cursor
  \/ insert_execute
  \/ insert_commit
  \/ main_inserted
  \/ \E u \in Uploads : client_insert(u)
  \/ \E id \in IdArgs : client_delete(id)
  \/ delete_cursor
  \/ delete_execute
  \/ delete_commit
  \/ delete_vacuum
  \/ vacuum_cursor
  \/ vacuum_execute
  \/ vacuum_commit
  \/ main_get_last
  \/ query_cursor
  \/ query_execute
  \/ main_save_backup

InitScript ==
  /\ config \in StoreConfigs
  /\ InitStore
  /\ gui = NoGui
  /\ gen = NoGen

SpecScript == InitScript /\ [][NextScript]_vars

\* ----- properties -----

\* the row insert_file(*u) is to store under id
Stored(id, u) ==
  [id |-> id, filename |-> u[1], mime_type |-> u[2], file_size |-> u[3],
   file_data |-> u[4], sha256 |-> u[5]]

\* C1: round trip.  As long as the row insert_file(filename, mime, size, B,
\* digest(B)) has returned the id X for is not deleted, get_file_by_id(X)
\* gives the row with id X, file_data B, sha256 digest(B) and the filename,
\* mime type and size that were passed, whatever was inserted and deleted
\* in between; and so does a call of get_file_by_id(X) that returns.
C1_RoundTrip ==
  \A e \in Engines : \A p \in inserted[e] :
    p[2][5] = Digest(p[2][4]) =>
      /\ get_file_by_id(files[e], p[1]) = <<Stored(p[1], p[2])>>
      /\ get_file_by_id(files[e], p[1])[1].sha256 = Digest(p[2][4])
      /\ (ret.op = "get_file_by_id" /\ ret.status = "returned"
            /\ ret.engine = e /\ ret.arg = p[1])
           => ret.rows = <<Stored(p[1], p[2])>>

\* a fetch of a row returned while another id had been deleted and a later
\* row inserted
C1_Witness ==
  /\ ret.op = "get_file_by_id" /\ ret.status = "returned"
  /\ ret.rows # <<>>
  /\ ret.rows[1].sha256 = Digest(ret.rows[1].file_data)
  /\ <<ret.arg, <<ret.rows[1].filename, ret.rows[1].mime_type,
        ret.rows[1].file_size, ret.rows[1].file_data, ret.rows[1].sha256>>>>
       \in inserted[ret.engine]
  /\ removed[ret.engine] # {}
  /\ \E r \in files[ret.engine] : r.id > ret.arg

\* C2: delete then fetch.  Once delete_file(X) has returned True, in every
\* later state get_file_by_id(X) and get_file_for_export(X) give None and X
\* is not in get_all_files(), also for a call that returns in that state.
C2_DeleteThenFetch ==
  \A e \in Engines : \A X \in deletedOk[e] :
    /\ get_file_by_id(files[e], X) = None
    /\ get_file_for_export(files[e], X) = None
    /\ \A i \in DOMAIN get_all_files(files[e]) :
         get_all_files(files[e])[i].id # X
    /\ (ret.status = "returned" /\ ret.engine = e /\ ret.arg = X
          /\ ret.op \in {"get_file_by_id", "get_file_for_export"})
         => ret.rows = None
    /\ (ret.status = "returned" /\ ret.engine = e /\ ret.op = "get_all_files")
         => \A i \in DOMAIN ret.rows : ret.rows[i].id # X

\* a fetch of a deleted id that returned after a later insert
C2_Witness ==
  /\ ret.op = "get_file_by_id" /\ ret.status = "returned"
  /\ ret.arg \in deletedOk[ret.engine]
  /\ seq[ret.engine] > ret.arg
  /\ \E r \in files[ret.engine] : r.id > ret.arg

MetadataKeys == {"id", "filename", "mime_type", "file_size", "sha256"}

\* the list L has one entry per row of rows, without file_data, by
\* strictly descending id
IsListOf(L, rows) ==
  /\ Len(L) = Cardinality(rows)
  /\ \A r \in rows : \E i \in DOMAIN L :
       /\ L[i].id = r.id /\ L[i].filename = r.filename
       /\ L[i].mime_type = r.mime_type /\ L[i].file_size = r.file_size
       /\ L[i].sha256 = r.sha256
  /\ \A i \in DOMAIN L : DOMAIN L[i] = MetadataKeys
  /\ \A i, j \in DOMAIN L : i < j => L[i].id > L[j].id

\* C3: list ordering and completeness.  In every state get_all_files() is
\* one entry per row of the table, with id, filename, mime_type, file_size
\* and sha256 and without file_data, by strictly descending id; after the
\* inserts A, B, C into an empty table it is [C, B, A].
C3_ListOrdering ==
  /\ \A e \in Engines : IsListOf(get_all_files(files[e]), files[e])
  /\ (ret.op = "get_all_files" /\ ret.status = "returned")
       => IsListOf(ret.rows, files[ret.engine])
  /\ \A e \in Engines :
       (Ids(files[e]) = {1, 2, 3} /\ removed[e] = {})
         => [i \in 1..3 |-> get_all_files(files[e])[i].id] = <<3, 2, 1>>

\* get_all_files() returned the three rows inserted into an empty table
C3_Witness ==
  /\ ret.op = "get_all_files" /\ ret.status = "returned"
  /\ Len(ret.rows) = 3
  /\ removed[ret.engine] = {}
  /\ ret.rows[1].id = 3 /\ ret.rows[3].id = 1

\* C4: when delete_file(X) returns, it returns True exactly when a row
\* with id X existed before the call, and then that row and no other is
\* gone; it returns False exactly when there was no such row, and then the
\* table is as before and no VACUUM was run.
C4_DeleteResult ==
  (ret.op = "delete_file" /\ ret.status = "returned") =>
    /\ ret.ok = (ret.arg \in Ids(pre))
    /\ ret.ok => files[ret.engine] = { r \in pre : r.id # ret.arg }
    /\ ret.ok => ret.arg \notin Ids(files[ret.engine])
    /\ ~ret.ok => files[ret.engine] = pre /\ ~ret.vacuumed

\* delete_file returned True, with compaction, and left other rows
C4_Witness ==
  /\ ret.op = "delete_file" /\ ret.status = "returned" /\ ret.ok
  /\ ret.vacuumed
  /\ files[ret.engine] # {}

\* delete_file returned False on a table with rows
C4_WitnessFalse ==
  /\ ret.op = "delete_file" /\ ret.status = "returned" /\ ~ret.ok
  /\ ret.vacuum_after
  /\ pre # {}

\* C5: ids are unique and monotonic.  No two rows share an id, and every
\* id insert_file returns is greater than every id an earlier insert_file
\* returned, is not the id of a row of the table and is not the id of a
\* deleted row.
C5_IdsMonotonic ==
  /\ [](\A e \in Engines : \A r1, r2 \in files[e] : r1.id = r2.id => r1 = r2)
  /\ [][(pc = "insert_commit" /\ ret'.status = "returned") =>
         /\ ret'.id > maxReturned[call.engine]
         /\ ret'.id \notin Ids(files[call.engine])
         /\ ret'.id \notin removed[call.engine]
         /\ \E r \in files'[call.engine] : r.id = ret'.id]_vars

\* insert_file returned an id after the row with the highest id was deleted
C5_Witness ==
  /\ ret.op = "insert_file" /\ ret.status = "returned"
  /\ ret.id - 1 \in removed[ret.engine]
  /\ \A r \in files[ret.engine] : r.id >= ret.id

\* C6: connection cleanup on all paths.  Every method closes every
\* connection it opened, however it ends, so while no method is running no
\* connection is open.
C6_ConnectionCleanup ==
  pc = "idle" => (conn = 0 /\ cursor = 0 /\ leaked = 0)

\* a VACUUM statement is about to be issued or has been issued by the
\* method that is running
InVacuum == pc \in {"vacuum_execute", "vacuum_commit"}

\* C7: compaction.  VACUUM is issued only on SQLite; delete_file issues it
\* only with vacuum_after true, after it removed a row and after it closed
\* its cursor and connection.
C7_VacuumOrdering ==
  /\ InVacuum => call.engine = "sqlite"
  /\ ret.vacuumed => ret.engine = "sqlite"
  /\ (InVacuum /\ call.caller = "delete_file") =>
       /\ call.vacuum_after /\ call.rows_affected > 0
       /\ call.connection_closed /\ call.id \in removed[call.engine]
       /\ conn = 1 /\ cursor <= 1
  /\ (ret.op = "delete_file" /\ ret.vacuumed) =>
       (ret.vacuum_after /\ ret.arg \in Ids(pre))
  /\ pc = "vacuum_call" => (conn = 0 /\ cursor = 0)

\* vacuum() on MySQL opens no connection
C7_VacuumMysql ==
  (ret.op = "vacuum" /\ ret.engine = "mysql") =>
    (ret.status = "returned" /\ ret.attempts = 0 /\ ~ret.vacuumed)

\* the store never has two connections open at the same time
C7_OneConnection == conn + leaked <= 1

\* C7: compaction precondition and ordering, with the three parts together
C7_Compaction == C7_VacuumOrdering /\ C7_VacuumMysql /\ C7_OneConnection

Range(f) == { f[i] : i \in DOMAIN f }

\* a required key of the MySQL configuration is not in db_param.json
KeyAbsent == \E k \in Range(RequiredKeys) : config[k] = "absent"

\* C8: missing required key.  With the MySQL engine and one of host, user,
\* password, database missing from the configuration, the construction of
\* Database fails with a configuration error that names the missing keys,
\* before any connection is attempted.
C8_MissingKey ==
  (config.exists /\ config.engine \in {"mysql", "absent"} /\ KeyAbsent) =>
    /\ db = "none" /\ pc = "idle" /\ conn = 0 /\ leaked = 0
    /\ ret.op = "__init__" =>
         /\ ret.status = "raised" /\ ret.error = "ValueError:missing"
         /\ \A k \in Range(RequiredKeys) :
              config[k] = "absent" => k \in Range(ret.missing)
         /\ ret.attempts = 0

\* the construction failed on a configuration without a password
C8_Witness ==
  /\ config.exists /\ config.engine = "mysql"
  /\ config.password = "absent" /\ config.host = "set"
  /\ config.user = "set" /\ config.database = "set"
  /\ ret.op = "__init__" /\ ret.status = "raised"
  /\ ret.missing = <<"password">>

ConfigErrors ==
  {"FileNotFoundError", "ValueError:engine", "ValueError:missing",
   "ValueError:sqlite_database"}

\* the construction fails with a configuration error, before any connection
FailsOnConfig ==
  /\ db = "none" /\ pc = "idle" /\ conn = 0
  /\ ret.op = "__init__" =>
       (ret.status = "raised" /\ ret.error \in ConfigErrors
        /\ ret.attempts = 0)

C10_IdempotentBootstrap ==
  /\ [](ret.op = "__init__" => ret.error # "TableExists")
  /\ []((ret.op = "__init__" /\ ret.status = "returned") =>
          (tableExists[ret.engine] /\ files[ret.engine] = pre))
  /\ [][(call.op = "__init__" \/ call'.op = "__init__"
          \/ ret'.op = "__init__") =>
         /\ files' = files
         /\ seq' = seq
         /\ \A e \in Engines : tableExists[e] => tableExists'[e]]_vars

\* a Database was constructed on a table that has rows and has lost rows
C10_Witness ==
  /\ ret.op = "__init__" /\ ret.status = "returned"
  /\ pre # {}
  /\ seq[ret.engine] > Cardinality(files[ret.engine])

\* the steps of check_connection()
CheckStep == pc = "check_close" \/ ret'.op = "check_connection"

C12_WitnessFalse ==
  /\ ret.op = "check_connection" /\ ret.status = "returned" /\ ~ret.ok
  /\ files[ret.engine] # {}

\* the row of the table rows with the id
RowOf(rows, id) == CHOOSE r \in rows : r.id = id

\* C14: permissive insert.  insert_file checks neither the digest nor the
\* size: the row it stores has the sha256 and the file_size that were
\* passed, also when they do not belong to the bytes, and it keeps them.
C14_PermissiveInsert ==
  /\ (ret.op = "insert_file" /\ ret.status = "returned") =>
       /\ ret.id \in Ids(files[ret.engine])
       /\ RowOf(files[ret.engine], ret.id).sha256 = ret.upload[5]
       /\ RowOf(files[ret.engine], ret.id).file_size = ret.upload[3]
  /\ \A e \in Engines : \A p \in inserted[e] :
       /\ p[1] \in Ids(files[e])
       /\ RowOf(files[e], p[1]).sha256 = p[2][5]
       /\ RowOf(files[e], p[1]).file_size = p[2][3]
       /\ RowOf(files[e], p[1]).file_data = p[2][4]

\* insert_file returned for a digest and a size that belong to other bytes
C14_Witness ==
  /\ ret.op = "insert_file" /\ ret.status = "returned"
  /\ ret.upload[5] # Digest(ret.upload[4])
  /\ ret.upload[3] # Len(ret.upload[4])
  /\ ret.id \in Ids(files[ret.engine])

\* the contents of a row: everything but its id
Content(r) == <<r.filename, r.mime_type, r.file_size, r.file_data, r.sha256>>

\* C15: no deduplication.  An insert_file that returns has added exactly
\* one row, under a new id, and changed no other row, also when the table
\* held a row with the same filename, bytes and digest.
C15_NoDedup ==
  [][(pc = "insert_commit" /\ ret'.status = "returned") =>
      LET e == call.engine
      IN /\ Cardinality(files'[e]) = Cardinality(files[e]) + 1
         /\ files[e] \subseteq files'[e]
         /\ \A r \in files'[e] \ files[e] :
              /\ r.id = ret'.id /\ r.id \notin Ids(files[e])
              /\ Content(r) = call.upload
         /\ \A o \in Engines \ {e} : files'[o] = files[o]]_vars

\* the same content is stored twice, under two ids
C15_Witness ==
  /\ ret.op = "insert_file" /\ ret.status = "returned"
  /\ \E r1, r2 \in files[ret.engine] :
       /\ r1.id # r2.id /\ r2.id = ret.id
       /\ Content(r1) = Content(r2)
  /\ Cardinality(files[ret.engine]) = 2

\* the methods that only read, with check_connection and vacuum
ReadOps == QueryOps \cup {"check_connection", "vacuum"}

C17_ExportProjection ==
  /\ \A e \in Engines : \A X \in 0..(MaxIds + 1) :
       LET x == get_file_for_export(files[e], X)
           f == get_file_by_id(files[e], X)
       IN /\ (x = None) = (f = None)
          /\ (f = None) = (X \notin Ids(files[e]))
          /\ f # None =>
               /\ DOMAIN x[1] = {"filename", "file_data", "sha256"}
               /\ x[1].filename = f[1].filename
               /\ x[1].file_data = f[1].file_data
               /\ x[1].sha256 = f[1].sha256
               /\ f[1].id = X
  /\ (ret.op = "get_file_for_export" /\ ret.status = "returned") =>
       /\ (ret.rows = None) = (get_file_by_id(files[ret.engine], ret.arg) = None)
       /\ ret.rows # None =>
            LET f == get_file_by_id(files[ret.engine], ret.arg)[1]
            IN ret.rows[1] = [filename |-> f.filename,
                              file_data |-> f.file_data, sha256 |-> f.sha256]

\* get_file_for_export returned a row that is not the last of the table
C17_Witness ==
  /\ ret.op = "get_file_for_export" /\ ret.status = "returned"
  /\ ret.rows # None
  /\ \E r \in files[ret.engine] :
       r.id > ret.arg /\ r.file_data # ret.rows[1].file_data

\* C18: error atomicity.  When insert_file or delete_file raises, the
\* table holds the rows it held before the call.
C18_ErrorAtomicity ==
  (ret.status = "raised" /\ ret.op \in {"insert_file", "delete_file"}) =>
    files[ret.engine] = pre

\* the same for the failures before the statement is committed
C18_BeforeCommit ==
  (ret.status = "raised" /\ ret.op \in {"insert_file", "delete_file"}
   /\ ~(ret.op = "delete_file" /\ ret.attempts = 2)) =>
    files[ret.engine] = pre

\* C11: export hash check.  An export writes the file_data it fetched,
\* reads the file back and reports success exactly when the digest of the
\* bytes read back is the sha256 of the row; otherwise it reports a
\* mismatch, without raising and with the file left on disk.  The export
\* leaves the tables and the configuration as they are.
C11_ExportHashCheck ==
  /\ [](export.read # <<>> =>
         /\ export.written = <<export.row[1].file_data>>
         /\ export.report \in {"OK", "mismatch"}
         /\ (export.report = "OK") =
              (Digest(export.read[1]) = export.row[1].sha256)
         /\ ~export.raised)
  /\ [](export.report # "none" => export.read # <<>>)
  /\ [][(export' # export \/ gui.handler = "export_selected"
           \/ gui'.handler = "export_selected")
         => (store' = store /\ config' = config /\ db' = db)]_vars

\* the window reported a mismatch for a file that was read back as
\* written: the digest stored with the row is wrong
C11_Witness ==
  /\ export.by = "export_selected" /\ export.report = "mismatch"
  /\ export.read = export.written
  /\ gui.done = "export_selected"

\* a corrupted copy of a row with the right digest
C11_WitnessCorrupted ==
  /\ export.by = "save_backup_file" /\ export.report = "mismatch"
  /\ export.read # export.written
  /\ export.row[1].sha256 = Digest(export.row[1].file_data)

\* a verified export
C11_WitnessOK ==
  /\ export.by = "save_backup_file" /\ export.report = "OK"
  /\ export.read = export.written

C19_ListConsistency ==
  (gui.stage = "idle"
   /\ gui.done \in {"add_file", "delete_selected", "refresh_files",
                   "_switch_database"})
    => gui.tree = Ids(files[get_current_engine(config)])

\* the same when the handler's calls of Database all returned, for a window
\* that has its Database object
C19_Refreshed ==
  [][(gui.stage = "refresh" /\ gui'.stage = "idle" /\ ret.status = "returned")
      => gui'.tree = Ids(files[db])]_vars

\* C20: engine-switch consistency.  When _on_db_selected, with or without
\* _switch_database, has finished, the combo box shows the engine stored in
\* db_param.json, which is the engine of self.db when there is one; and a
\* window that had a Database object still has one.
C20_EngineSwitch ==
  (gui.stage = "idle" /\ gui.done \in {"_on_db_selected", "_switch_database"})
    => /\ gui.combo = get_current_engine(config)
       /\ db # "none" => gui.combo = db
       /\ gui.before # "none" => db # "none"

\* the same for the switches whose reconnect succeeded and the selections
\* that did not switch
C20_SwitchedOrKept ==
  (gui.stage = "idle" /\ gui.done \in {"_on_db_selected", "_switch_database"}
   /\ db # "none")
    => /\ gui.combo = get_current_engine(config)
       /\ gui.combo = db

\* C22: random-file generator.  create_random_file(size_mb, path) with
\* size_mb >= 1 comes to an end, and when it returns the file has exactly
\* size_mb * 1024 * 1024 bytes, all written by this call; every iteration
\* of the loop adds at least one byte to bytes_written and never takes it
\* beyond total_bytes; with size_mb <= 0 it raises ValueError and the
\* output file is as it was, neither opened nor truncated.
C22_RandomFile ==
  /\ [](gen.pc = "done" =>
         /\ gen.size_mb >= 1
         /\ gen.bytes_written = gen.size_mb * 1024 * 1024
         /\ gen.file = <<gen.size_mb * 1024 * 1024>>)
  /\ [](gen.pc = "loop" =>
         /\ gen.size_mb >= 1
         /\ gen.bytes_written <= gen.total_bytes
         /\ gen.file = <<gen.bytes_written>>)
  /\ [][(gen.pc = "loop" /\ gen'.pc = "loop") =>
          /\ gen'.bytes_written >= gen.bytes_written + 1
          /\ gen'.bytes_written <= gen.total_bytes]_vars
  /\ [][\A size_mb \in SizesMb :
          (size_mb <= 0 /\ gen.pc # "loop" /\ gen'.size_mb = size_mb
           /\ gen' # gen)
            => /\ gen'.pc = "raised" /\ gen'.error = "ValueError"
               /\ gen'.file = gen.file]_vars
  /\ [](gen.error = "ValueError" => gen.size_mb <= 0 /\ gen.file = gen.before)
  /\ (gen.pc = "loop") ~> (gen.pc \in {"done", "raised"})

\* a file of two megabytes has been written over an older file
C22_Witness ==
  /\ gen.pc = "done" /\ gen.size_mb = 2
  /\ gen.before = <<5>>
  /\ gen.file = <<2097152>>

\* the call with size_mb = 0 on an existing file
C22_WitnessValueError ==
  /\ gen.pc = "raised" /\ gen.error = "ValueError" /\ gen.size_mb = 0
  /\ gen.file # <<>>

\* C21: the ingestion script exports what it inserted.  The row main hands
\* to save_backup_file has the id that its insert_file returned, whatever
\* another client inserts or deletes between insert_file and get_last_file.
C21_ExportsInserted ==
  script.done = "saved" => script.row[1].id = script.file_id

\* the same when no other client has inserted a later row or deleted the
\* script's row
C21_Alone ==
  (script.done = "saved" /\ db \in Engines
   /\ maxReturned[db] = script.file_id
   /\ script.file_id \notin removed[db])
    => script.row[1].id = script.file_id

\* C21 (get_last_file): main finds no row only when the table is empty
C21_NoneOnlyEmpty ==
  script.done = "no file" => (db \in Engines /\ files[db] = {})

\* the script has saved the row it inserted, into a table with older rows
C21_WitnessSaved ==
  /\ script.done = "saved" /\ script.row[1].id = script.file_id
  /\ db \in Engines /\ Cardinality(files[db]) = 2

====
